---- MODULE Spec2Model ----
(***************************************************************************)
(* The Opus packet framing parser of opus-rs (src/packet/parser.rs,        *)
(* src/packet/utils.rs, src/packet/config.rs) and a caller that owns the   *)
(* output vector of frame slices (src/bin/opusstat.rs, src/bin/utils.rs).  *)
(*                                                                         *)
(* Conventions                                                             *)
(*  - A packet is a byte buffer.  It is written as a record                *)
(*    [head |-> <<b0, b1, ...>>, fill |-> n]: the bytes of head followed   *)
(*    by n bytes of value FillByte.  This keeps buffers longer than the    *)
(*    1275-byte frame ceiling small in the state.  Indices are 0-based as  *)
(*    in the source.  FillByte is 255: read as a frame length it needs a   *)
(*    second byte, so no loop of the parser runs through a long fill.      *)
(*  - A slice &buf[lo..hi] is the record [buf, lo, hi]; a frame slice kept *)
(*    in the output vector is the range [lo, hi] into the packet of its    *)
(*    call.                                                                *)
(*  - Option<T>: None is <<>>, Some(x) is <<x>>.                           *)
(*  - usize values are integers modulo 2^64.  A value that wrapped below   *)
(*    zero is kept as its negative representative (v stands for v + 2^64). *)
(*    No value of the model comes near 2^63, so a negative number is       *)
(*    always such a wrapped value.                                         *)
(*  - A panic (index or slice out of range, arithmetic overflow with       *)
(*    overflow checks on, division by zero) is the outcome kind "panic".   *)
(***************************************************************************)
EXTENDS Integers, Sequences, FiniteSets

(***************************************************************************)
(* Bounds of the model.                                                    *)
(***************************************************************************)
\* Longest explicit head of a packet.
MaxHead == 4
\* A caller may keep its vector for the next call while it holds at most
\* this many slices.
MaxLeftover == 1
\* A caller that keeps its vector across calls handles packets of at most
\* this many bytes.
MaxReuseLen == 3
\* Longest byte window handed to the frame-length decoder on its own.
MaxWindow == 3
\* Length of the shortest run of fill bytes.
SmallFill == 2

\* The largest frame the strict feature accepts.
MAX_FRAME_SIZE == 1275
\* The longest audio a Code 3 packet may carry, in tenths of a millisecond
\* (120.0 ms in the source).
MAX_AUDIO == 1200
\* Byte values packets are built from.  As a TOC byte: 0..3 are Codes 0..3
\* of config 0; 65 is Code 1, 130 is Code 2 and 255 is Code 3 (config 31).
\* As a frame-count byte: 0..3 are CBR unpadded M = 0..3; 65 is CBR padded
\* M = 1; 130 is VBR unpadded M = 2; 255 is VBR padded M = 63.  As a length:
\* 0..3 and 65, 130 are one-byte lengths, 255 opens a two-byte length or
\* continues a padding chain.
Bytes == {0, 1, 2, 3, 65, 130, 255}
\* Byte values for the frame-length decoder on its own.
DecoderBytes == {0, 1, 2, 250, 251, 252, 253, 255}
\* The value of the bytes after a packet's head.
FillByte == CHOOSE b \in Bytes : \A c \in Bytes : c <= b
\* Runs of fill bytes: none, two short ones, and one longer than any frame
\* the strict feature accepts.
Fills == {0, SmallFill, SmallFill + 1, MAX_FRAME_SIZE + 2}

Heads(B, n) == UNION {[1..k -> B] : k \in 0..n}
Packets == {[head |-> h, fill |-> f] : h \in Heads(Bytes, MaxHead), f \in Fills}
Windows == {[head |-> h, fill |-> 0] : h \in Heads(DecoderBytes, MaxWindow)}
NoPacket == [head |-> <<>>, fill |-> 0]

(***************************************************************************)
(* Byte buffers and slices.                                                *)
(***************************************************************************)
\* packet.len()
PLen(packet) == Len(packet.head) + packet.fill
\* packet[i], for 0 <= i < packet.len()
At(packet, i) == IF i < Len(packet.head) THEN packet.head[i + 1] ELSE FillByte
\* &packet[lo..hi], for lo <= hi <= packet.len()
Slice(packet, lo, hi) == [buf |-> packet, lo |-> lo, hi |-> hi]
SliceLen(bytes) == bytes.hi - bytes.lo
SliceAt(bytes, i) == At(bytes.buf, bytes.lo + i)
\* A frame slice as the output vector keeps it.
Range(lo, hi) == [lo |-> lo, hi |-> hi]
RangeLen(r) == r.hi - r.lo

None == <<>>
Some(x) == <<x>>

(***************************************************************************)
(* src/packet/config.rs                                                    *)
(***************************************************************************)
Config(mode, bandwith, framesize) ==
    [mode |-> mode, bandwith |-> bandwith, framesize |-> framesize]

\* framesize is in tenths of a millisecond: 2.5 ms is 25.
OPUS_CONFIG_TABLE ==
    << Config("SILK", "Narrow", 100), Config("SILK", "Narrow", 200),
       Config("SILK", "Narrow", 400), Config("SILK", "Narrow", 600),
       Config("SILK", "Medium", 100), Config("SILK", "Medium", 200),
       Config("SILK", "Medium", 400), Config("SILK", "Medium", 600),
       Config("SILK", "Wide", 100), Config("SILK", "Wide", 200),
       Config("SILK", "Wide", 400), Config("SILK", "Wide", 600),
       Config("Hybrid", "SuperWide", 100), Config("Hybrid", "SuperWide", 200),
       Config("Hybrid", "FullBand", 100), Config("Hybrid", "FullBand", 200),
       Config("CELT", "Narrow", 25), Config("CELT", "Narrow", 50),
       Config("CELT", "Narrow", 100), Config("CELT", "Narrow", 200),
       Config("CELT", "Wide", 25), Config("CELT", "Wide", 50),
       Config("CELT", "Wide", 100), Config("CELT", "Wide", 200),
       Config("CELT", "SuperWide", 25), Config("CELT", "SuperWide", 50),
       Config("CELT", "SuperWide", 100), Config("CELT", "SuperWide", 200),
       Config("CELT", "FullBand", 25), Config("CELT", "FullBand", 50),
       Config("CELT", "FullBand", 100), Config("CELT", "FullBand", 200) >>

(***************************************************************************)
(* src/packet/utils.rs                                                     *)
(***************************************************************************)
LengthSome(length, size) == [kind |-> "Some", length |-> length, size |-> size]
LengthNone == [kind |-> "None", length |-> 0, size |-> 0]
LengthPanic == [kind |-> "panic", length |-> 0, size |-> 0]

\* parse_frame_length(bytes: &[u8]) -> Option<(usize, usize)>
parse_frame_length(bytes) ==
    IF SliceLen(bytes) < 1
    THEN LengthNone
    ELSE LET length == SliceAt(bytes, 0)
         IN  IF length > 251
             THEN IF SliceLen(bytes) < 2
                  THEN \* length += bytes[1] as usize * 4; Some((length, 2))
                       IF 1 < SliceLen(bytes)
                       THEN LengthSome(length + SliceAt(bytes, 1) * 4, 2)
                       ELSE LengthPanic
                  ELSE LengthNone
             ELSE LengthSome(length, 1)

(***************************************************************************)
(* src/packet/parser.rs                                                    *)
(***************************************************************************)
\* impl From<u8> for Code
CodeFrom(value) ==
    CASE value = 0 -> "Code0"
      [] value = 1 -> "Code1"
      [] value = 2 -> "Code2"
      [] value = 3 -> "Code3"

\* The TOC byte, viewed most significant bit first.
TocConfig(toc) == OPUS_CONFIG_TABLE[(toc \div 8) + 1]
TocStereo(toc) == (toc \div 4) % 2 = 1
TocCode(toc) == toc % 4
\* The frame count byte of a Code 3 packet.
FcbVbr(fcb) == fcb \div 128 = 1
FcbPad(fcb) == (fcb \div 64) % 2 = 1
FcbFrames(fcb) == fcb % 64

\* What one step of parse leaves: how it went on (kind "ok"), or the value
\* it returned early with (kind "err"), or a panic; and the output vector.
Step(kind, err, frames) == [kind |-> kind, err |-> err, frames |-> frames]
Pass(frames) == Step("ok", "none", frames)
Fail(err, frames) == Step("err", err, frames)
Abort(frames) == Step("panic", "none", frames)

\* Code 0 that clears the vector before it pushes its frame.
Code0ClearsFirst(strict, frames, packet) ==
    IF strict /\ PLen(packet) - 1 > MAX_FRAME_SIZE
    THEN Fail("FrameTooBig", frames)
    ELSE Pass(<<Range(1, PLen(packet))>>)

\* Code 0, 1 frame
Code0(strict, frames, packet) ==
    IF strict /\ PLen(packet) - 1 > MAX_FRAME_SIZE
    THEN \* compressed = &packet[1..]
         Fail("FrameTooBig", frames)
    ELSE Pass(Append(frames, Range(1, PLen(packet))))

\* Code 1 once compressed is split at mid.
Code1Frames(strict, frames, frame_0, frame_1) ==
    IF strict /\ (RangeLen(frame_0) > MAX_FRAME_SIZE \/ RangeLen(frame_1) > MAX_FRAME_SIZE)
    THEN Fail("FrameTooBig", frames)
    ELSE Pass(Append(Append(frames, frame_0), frame_1))

\* Code 1 with the parity rule compiled in only without "strict".
Code1ParityLenientOnly(strict, frames, packet) ==
    IF ~strict /\ PLen(packet) % 2 # 0
    THEN Fail("NonOddLength", frames)
    ELSE Code1Frames(strict, frames,
                     Range(1, 1 + ((PLen(packet) - 1) \div 2)),
                     Range(1 + ((PLen(packet) - 1) \div 2), PLen(packet)))

\* Code 1, 2 frames
Code1(strict, frames, packet) ==
    IF PLen(packet) % 2 # 0
    THEN Fail("NonOddLength", frames)
    ELSE \* compressed = &packet[1..]; compressed.split_at(compressed.len() / 2)
         Code1Frames(strict, frames,
                     Range(1, 1 + ((PLen(packet) - 1) \div 2)),
                     Range(1 + ((PLen(packet) - 1) \div 2), PLen(packet)))

\* Code 2 once the length of frame 0 is decoded.
Code2Frames(strict, frames, packet, frame_0_len) ==
    CASE frame_0_len.kind = "panic" -> Abort(frames)
      [] frame_0_len.kind = "None" -> Fail("PacketTooSmall", frames)
      [] OTHER ->
           IF frame_0_len.size > PLen(packet)
           THEN \* &packet[frame_0_len.1..]
                Abort(frames)
           ELSE IF PLen(packet) - frame_0_len.size < frame_0_len.length
           THEN \* compressed.len() < frame_0_len
                Fail("LengthOverflow", frames)
           ELSE IF strict /\ (PLen(packet) - frame_0_len.size) - frame_0_len.length > MAX_FRAME_SIZE
           THEN \* frames.push(&compressed[..frame_0_len]) came first
                Fail("FrameTooBig",
                     Append(frames, Range(frame_0_len.size,
                                          frame_0_len.size + frame_0_len.length)))
           ELSE IF frame_0_len.length > PLen(packet)
           THEN Abort(Append(frames, Range(frame_0_len.size,
                                           frame_0_len.size + frame_0_len.length)))
           ELSE \* frames.push(&compressed[..frame_0_len]);
                \* frames.push(&packet[frame_0_len..])
                Pass(Append(Append(frames, Range(frame_0_len.size,
                                                 frame_0_len.size + frame_0_len.length)),
                            Range(frame_0_len.length, PLen(packet))))

\* Code 2, 2 frames (var. size)
Code2(strict, frames, packet) ==
    IF 3 > PLen(packet)
    THEN \* &packet[1..3]
         Abort(frames)
    ELSE Code2Frames(strict, frames, packet, parse_frame_length(Slice(packet, 1, 3)))

\* The padding length loop of a Code 3 packet (if is_pad { loop { ... } }).
PadStep(kind, err, n_padb, pad_len) ==
    [kind |-> kind, err |-> err, n_padb |-> n_padb, pad_len |-> pad_len]

RECURSIVE PadLoop(_, _, _)
\* One round of the loop with pad_len += padb done.
PadByte(packet, n_padb, pad_len, padb) ==
    IF padb # 255
    THEN PadStep("ok", "none", n_padb, pad_len)
    ELSE IF (pad_len - 1) + n_padb > PLen(packet) - 2
    THEN PadStep("err", "LengthOverflow", n_padb, pad_len - 1)
    ELSE PadLoop(packet, n_padb + 1, pad_len - 1)

PadLoop(packet, n_padb, pad_len) ==
    IF 2 + n_padb >= PLen(packet)
    THEN \* packet[2 + n_padb]
         PadStep("panic", "none", n_padb, pad_len)
    ELSE PadByte(packet, n_padb, pad_len + At(packet, 2 + n_padb), At(packet, 2 + n_padb))

\* What placing the frames of a Code 3 packet leaves: the step and the
\* position after the last frame.
Placed(kind, err, frames, frame_pos) ==
    [kind |-> kind, err |-> err, frames |-> frames, frame_pos |-> frame_pos]

\* The loop over the length-prefixed frames of a VBR packet
\* (for _ in 0..num_frames-1), count iterations from frame_pos on.
RECURSIVE VbrLoop(_, _, _, _, _, _)
\* One round of the loop with frame_len decoded.
VbrFrame(strict, frames, packet, len_compressed, frame_pos, count, frame_len) ==
    CASE frame_len.kind = "panic" -> Placed("panic", "none", frames, frame_pos)
      [] frame_len.kind = "None" -> Placed("err", "PacketTooSmall", frames, frame_pos)
      [] OTHER ->
           IF frame_pos + frame_len.size + frame_len.length > PLen(packet)
           THEN \* &packet[frame_off..(frame_off+frame_len.0)]
                Placed("panic", "none", frames, frame_pos)
           ELSE IF strict /\ len_compressed < frame_len.length
           THEN Placed("err", "PacketTooSmall", frames, frame_pos)
           ELSE VbrLoop(strict,
                        Append(frames, Range(frame_pos + frame_len.size,
                                             frame_pos + frame_len.size + frame_len.length)),
                        packet, len_compressed,
                        frame_pos + frame_len.size + frame_len.length, count - 1)

VbrLoop(strict, frames, packet, len_compressed, frame_pos, count) ==
    IF count = 0
    THEN Placed("ok", "none", frames, frame_pos)
    ELSE IF frame_pos > PLen(packet)
    THEN \* &packet[frame_pos..]
         Placed("panic", "none", frames, frame_pos)
    ELSE VbrFrame(strict, frames, packet, len_compressed, frame_pos, count,
                  parse_frame_length(Slice(packet, frame_pos, PLen(packet))))

\* The last frame of a VBR packet, frame_len == len_compressed - frame_pos
\* (a negative frame_len is a wrapped one).
VbrLast(strict, overflow_checks, frames, packet, len_compressed, frame_pos, frame_len) ==
    IF len_compressed > frame_pos
    THEN Placed("err", "PacketTooSmall", frames, frame_pos)
    ELSE IF frame_len < 0 /\ overflow_checks
    THEN \* len_compressed - frame_pos
         Placed("panic", "none", frames, frame_pos)
    ELSE IF strict /\ (frame_len < 0 \/ frame_len > MAX_FRAME_SIZE)
    THEN Placed("err", "FrameTooBig", frames, frame_pos)
    ELSE IF frame_pos + frame_len < frame_pos \/ frame_pos + frame_len > PLen(packet)
    THEN \* &packet[frame_pos..frame_pos + frame_len]
         Placed("panic", "none", frames, frame_pos)
    ELSE Placed("ok", "none", Append(frames, Range(frame_pos, frame_pos + frame_len)),
                frame_pos + frame_len)

\* The VBR branch once the loop has left explicit.
VbrRest(strict, overflow_checks, packet, len_compressed, explicit) ==
    IF explicit.kind # "ok"
    THEN explicit
    ELSE VbrLast(strict, overflow_checks, explicit.frames, packet, len_compressed,
                 explicit.frame_pos, len_compressed - explicit.frame_pos)

\* The VBR branch: the frames and pad_pos.
VbrFrames(strict, overflow_checks, frames, packet, len_compressed, n_padb, num_frames) ==
    IF num_frames = 0 /\ overflow_checks
    THEN \* num_frames-1
         Placed("panic", "none", frames, 0)
    ELSE VbrRest(strict, overflow_checks, packet, len_compressed,
                 VbrLoop(strict, frames, packet, len_compressed, n_padb + 2, num_frames - 1))

\* The loop over the frames of a CBR packet (for _ in 0..num_frames).
RECURSIVE CbrLoop(_, _, _, _, _)
CbrLoop(frames, packet, frame_len, frame_pos, count) ==
    IF count = 0
    THEN Placed("ok", "none", frames, frame_pos)
    ELSE IF frame_pos + frame_len > PLen(packet)
    THEN Placed("panic", "none", frames, frame_pos)
    ELSE CbrLoop(Append(frames, Range(frame_pos, frame_pos + frame_len)),
                 packet, frame_len, frame_pos + frame_len, count - 1)

\* The CBR branch: the frames and pad_pos.
CbrFrames(frames, packet, len_compressed, n_padb, num_frames) ==
    IF num_frames = 0
    THEN \* len_compressed % num_frames
         Placed("panic", "none", frames, 0)
    ELSE IF len_compressed % num_frames # 0
    THEN Placed("err", "NonMultipleRemainder", frames, 0)
    ELSE CbrLoop(frames, packet, len_compressed \div num_frames, n_padb + 2, num_frames)

\* What a branch of parse leaves: the step, is_vbr and padding.
Branch(step, is_vbr, padding) ==
    [kind |-> step.kind, err |-> step.err, frames |-> step.frames,
     is_vbr |-> is_vbr, padding |-> padding]

\* Code 3 once the frames are placed: the strict check on pad_pos, padding.
Code3Padding(strict, packet, is_vbr, is_pad, n_padb, pad_len, placed) ==
    IF placed.kind # "ok"
    THEN Branch(Step(placed.kind, placed.err, placed.frames), is_vbr, None)
    ELSE IF strict /\ PLen(packet) - placed.frame_pos > pad_len
    THEN Branch(Fail("PacketTooSmall", placed.frames), is_vbr, None)
    ELSE Branch(Pass(placed.frames), is_vbr,
                IF is_pad
                THEN Some([total |-> pad_len + n_padb,
                           data |-> IF pad_len = 0
                                    THEN None
                                    ELSE Some(Range(placed.frame_pos, PLen(packet)))])
                ELSE None)

\* Code 3 once the padding length is read: len_compressed, the frames.
Code3Frames(strict, overflow_checks, frames, packet, is_vbr, is_pad, num_frames, pad) ==
    IF pad.kind = "panic"
    THEN Branch(Abort(frames), is_vbr, None)
    ELSE IF pad.kind = "err"
    THEN Branch(Fail(pad.err, frames), is_vbr, None)
    ELSE IF PLen(packet) - (pad.n_padb + pad.pad_len + 2) < 0
    THEN \* packet.len().checked_sub(n_padb + pad_len + 2)
         Branch(Fail("PacketTooSmall", frames), is_vbr, None)
    ELSE Code3Padding(strict, packet, is_vbr, is_pad, pad.n_padb, pad.pad_len,
             IF is_vbr # None
             THEN VbrFrames(strict, overflow_checks, frames, packet,
                            PLen(packet) - (pad.n_padb + pad.pad_len + 2),
                            pad.n_padb, num_frames)
             ELSE CbrFrames(frames, packet,
                            PLen(packet) - (pad.n_padb + pad.pad_len + 2),
                            pad.n_padb, num_frames))

\* Code 3 once the frame count byte is read.
Code3Header(strict, overflow_checks, frames, packet, config, is_vbr, is_pad, num_frames) ==
    IF strict /\ num_frames < 1
    THEN Branch(Fail("NoAudio", frames), is_vbr, None)
    ELSE IF strict /\ config.framesize * num_frames > MAX_AUDIO
    THEN Branch(Fail("TooMuchAudio", frames), is_vbr, None)
    ELSE Code3Frames(strict, overflow_checks, frames, packet, is_vbr, is_pad, num_frames,
                     IF is_pad
                     THEN \* n_padb = is_pad as usize; pad_len = 0
                          PadLoop(packet, 1, 0)
                     ELSE PadStep("ok", "none", 0, 0))

\* Code 3, multiple frames (var/const. size)
Code3(strict, overflow_checks, frames, packet) ==
    IF PLen(packet) < 2
    THEN Branch(Fail("PacketTooSmall", frames), None, None)
    ELSE Code3Header(strict, overflow_checks, frames, packet, TocConfig(At(packet, 0)),
                     Some(FcbVbr(At(packet, 1))), FcbPad(At(packet, 1)),
                     FcbFrames(At(packet, 1)))

\* What a call of parse leaves: the Result it returns (kind "ok" with
\* Internal's info and padding, or kind "err" with the Error), or a panic;
\* and the caller's output vector.
Outcome(kind, err, frames, info, padding) ==
    [kind |-> kind, err |-> err, frames |-> frames, info |-> info, padding |-> padding]

\* The end of parse: num_frames and the Result.
Finish(toc, done) ==
    IF done.kind = "ok"
    THEN Outcome("ok", "none", done.frames,
                 Some([frame_config |-> [config |-> TocConfig(toc),
                                         is_stereo |-> TocStereo(toc)],
                       code_no |-> CodeFrom(TocCode(toc)),
                       is_vbr |-> done.is_vbr,
                       num_frames |-> Len(done.frames)]),
                 done.padding)
    ELSE Outcome(done.kind, done.err, done.frames, None, None)

\* match code_no { ... }
Dispatch(strict, overflow_checks, frames, packet, code_no) ==
    CASE code_no = 0 -> Branch(Code0(strict, frames, packet), None, None)
      [] code_no = 1 -> Branch(Code1(strict, frames, packet), None, None)
      [] code_no = 2 -> Branch(Code2(strict, frames, packet), None, None)
      [] code_no = 3 -> Code3(strict, overflow_checks, frames, packet)

\* pub fn parse(frames: &mut Vec<&[u8]>, packet: &[u8]) -> Result<Internal, Error>
\* built with (strict) or without the feature "strict", with or without
\* overflow checks.
parse(strict, overflow_checks, frames, packet) ==
    IF PLen(packet) < 1
    THEN Outcome("err", "NoTOC", frames, None, None)
    ELSE Finish(At(packet, 0),
                Dispatch(strict, overflow_checks, frames, packet, TocCode(At(packet, 0))))

(***************************************************************************)
(* The state: a build of the crate, a caller with its output vector, the   *)
(* last call of parse; two parsers run side by side on one packet; the     *)
(* frame-length decoder run on a byte window.                              *)
(***************************************************************************)
VARIABLES
    strict,          \* the build has the feature "strict"
    overflow_checks, \* the build checks arithmetic overflow (debug profile)
    pc,              \* "idle", "returned" (parse has returned), "aborted" (it panicked)
    packet,          \* the packet of the call
    before,          \* the caller's vector when parse was called
    frames,          \* the caller's vector
    result,          \* what the call returned
    lenient_run,     \* the parser without "strict" on packet, its own vector
    strict_run,      \* the parser with "strict" on packet, its own vector
    bytes,           \* a byte window
    decoded          \* parse_frame_length(bytes)

vars == <<strict, overflow_checks, pc, packet, before, frames, result,
          lenient_run, strict_run, bytes, decoded>>

NoResult == [kind |-> "none", err |-> "none", info |-> None, padding |-> None]
NoRun == Outcome("none", "none", <<>>, None, None)
NoLength == [kind |-> "none", length |-> 0, size |-> 0]

CallerIdle ==
    /\ pc = "idle"
    /\ packet = NoPacket
    /\ before = <<>>
    /\ frames = <<>>
    /\ result = NoResult
NoRuns ==
    /\ lenient_run = NoRun
    /\ strict_run = NoRun
NoWindow ==
    /\ bytes = NoPacket
    /\ decoded = NoLength

\* let mut frames = Vec::new(), in some build of the crate.
Init ==
    /\ strict \in BOOLEAN
    /\ overflow_checks \in BOOLEAN
    /\ CallerIdle
    /\ NoRuns
    /\ NoWindow

\* parse has returned out (or panicked with it) on packet p.
Returned(p, out) ==
    /\ packet' = p
    /\ before' = frames
    /\ frames' = out.frames
    /\ result' = [kind |-> out.kind, err |-> out.err,
                  info |-> out.info, padding |-> out.padding]
    /\ pc' = IF out.kind = "panic" THEN "aborted" ELSE "returned"

\* The caller hands a packet and its vector to parse.
Parse ==
    /\ pc = "idle"
    /\ \E p \in Packets :
          /\ frames = <<>> \/ PLen(p) <= MaxReuseLen
          /\ Returned(p, parse(strict, overflow_checks, frames, p))
    /\ UNCHANGED <<strict, overflow_checks, lenient_run, strict_run, bytes, decoded>>

\* The caller is done with the packet and clears its vector
\* (VecScope::drop in opusstat).
Clear ==
    /\ pc = "returned"
    /\ pc' = "idle"
    /\ packet' = NoPacket
    /\ before' = <<>>
    /\ frames' = <<>>
    /\ result' = NoResult
    /\ UNCHANGED <<strict, overflow_checks, lenient_run, strict_run, bytes, decoded>>

\* The caller is done with the packet and keeps its vector as it is for the
\* next call.
Reuse ==
    /\ pc = "returned"
    /\ PLen(packet) <= MaxReuseLen
    /\ Len(frames) <= MaxLeftover
    /\ pc' = "idle"
    /\ packet' = NoPacket
    /\ before' = frames
    /\ result' = NoResult
    /\ UNCHANGED <<strict, overflow_checks, frames, lenient_run, strict_run, bytes, decoded>>

Next == Parse \/ Clear \/ Reuse

Spec == Init /\ [][Next]_vars

(***************************************************************************)
(* The two builds side by side: one packet, the parser without and with    *)
(* the feature "strict", each on its own empty vector.                     *)
(***************************************************************************)
InitModes ==
    /\ strict = FALSE
    /\ overflow_checks \in BOOLEAN
    /\ pc = "idle"
    /\ packet \in Packets
    /\ before = <<>>
    /\ frames = <<>>
    /\ result = NoResult
    /\ NoRuns
    /\ NoWindow

RunLenient ==
    /\ lenient_run = NoRun
    /\ lenient_run' = parse(FALSE, overflow_checks, <<>>, packet)
    /\ UNCHANGED <<strict, overflow_checks, pc, packet, before, frames, result,
                   strict_run, bytes, decoded>>

RunStrict ==
    /\ strict_run = NoRun
    /\ strict_run' = parse(TRUE, overflow_checks, <<>>, packet)
    /\ UNCHANGED <<strict, overflow_checks, pc, packet, before, frames, result,
                   lenient_run, bytes, decoded>>

NextModes == RunLenient \/ RunStrict

SpecModes == InitModes /\ [][NextModes]_vars

(***************************************************************************)
(* The frame-length decoder on a byte window.                              *)
(***************************************************************************)
InitDecoder ==
    /\ strict = FALSE
    /\ overflow_checks = FALSE
    /\ CallerIdle
    /\ NoRuns
    /\ bytes \in Windows
    /\ decoded = NoLength

Decode ==
    /\ decoded = NoLength
    /\ decoded' = parse_frame_length(Slice(bytes, 0, PLen(bytes)))
    /\ UNCHANGED <<strict, overflow_checks, pc, packet, before, frames, result,
                   lenient_run, strict_run, bytes>>

NextDecoder == Decode

SpecDecoder == InitDecoder /\ [][NextDecoder]_vars

(***************************************************************************)
(* The packet layout as the specification states it, for the properties    *)
(* below.                                                                  *)
(***************************************************************************)
\* The frame length read at pos of packet: one byte up to 251 stands for
\* itself, a byte from 252 on takes a second byte w and stands for v + 4w.
StatedLength(p, pos) ==
    IF pos >= PLen(p)
    THEN LengthNone
    ELSE IF At(p, pos) <= 251
    THEN LengthSome(At(p, pos), 1)
    ELSE IF pos + 1 < PLen(p)
    THEN LengthSome(At(p, pos) + 4 * At(p, pos + 1), 2)
    ELSE LengthNone

\* The padding length bytes from pos on: 255 adds 254 and goes on, a byte
\* below 255 adds itself and ends the chain.  The chain ends at the first
\* byte below 255, if there is one.
ChainEnds(p, pos) == {i \in pos..(PLen(p) - 1) : At(p, i) # 255}
ChainEnd(p, pos) == CHOOSE i \in ChainEnds(p, pos) : \A j \in ChainEnds(p, pos) : i <= j
StatedChain(p, pos) ==
    IF ChainEnds(p, pos) = {}
    THEN [complete |-> FALSE, n_padb |-> 0, pad_len |-> 0]
    ELSE [complete |-> TRUE,
          n_padb |-> (ChainEnd(p, pos) - pos) + 1,
          pad_len |-> 254 * (ChainEnd(p, pos) - pos) + At(p, ChainEnd(p, pos))]

\* The padding of a Code 3 packet: the chain starts at byte 2.
StatedPadding(p) ==
    IF FcbPad(At(p, 1))
    THEN StatedChain(p, 2)
    ELSE [complete |-> TRUE, n_padb |-> 0, pad_len |-> 0]

\* The count length-prefixed frames from pos on, each right after its prefix.
RECURSIVE StatedExplicit(_, _, _, _)
StatedExplicit(p, pos, count, placed) ==
    IF count = 0
    THEN [decoded |-> TRUE, frames |-> placed, pos |-> pos]
    ELSE IF StatedLength(p, pos).kind # "Some"
    THEN [decoded |-> FALSE, frames |-> placed, pos |-> pos]
    ELSE StatedExplicit(p, pos + StatedLength(p, pos).size + StatedLength(p, pos).length,
                        count - 1,
                        Append(placed,
                               Range(pos + StatedLength(p, pos).size,
                                     pos + StatedLength(p, pos).size
                                         + StatedLength(p, pos).length)))

\* count frames of length each, one after the other from pos on.
StatedEqual(pos, count, each) ==
    [i \in 1..count |-> Range(pos + (i - 1) * each, pos + i * each)]

RECURSIVE SumLen(_)
SumLen(ranges) ==
    IF ranges = <<>> THEN 0 ELSE RangeLen(Head(ranges)) + SumLen(Tail(ranges))

Disjoint(r, q) == r.hi <= q.lo \/ q.hi <= r.lo \/ r.lo = r.hi \/ q.lo = q.hi

Errors == {"NoTOC", "FrameTooBig", "NonOddLength", "PacketTooSmall", "LengthOverflow",
           "TooMuchAudio", "NonMultipleRemainder", "NoAudio"}

\* parse has been called on packet and has ended.
Called == pc # "idle"
Succeeded == pc = "returned" /\ result.kind = "ok"
FailedWith(e) == pc = "returned" /\ result.kind = "err" /\ result.err = e
\* The slices the call appended.
Appended == SubSeq(frames, Len(before) + 1, Len(frames))
PaddingTotal == IF result.padding = None THEN 0 ELSE result.padding[1].total

IsCode(p, c) == PLen(p) >= 1 /\ TocCode(At(p, 0)) = c
IsCode3(p) == IsCode(p, 3) /\ PLen(p) >= 2
FrameCount(p) == FcbFrames(At(p, 1))
\* The rules only the feature "strict" adds do not reject the packet.
HeaderAdmitted(p) ==
    strict => /\ FrameCount(p) >= 1
              /\ TocConfig(At(p, 0)).framesize * FrameCount(p) <= MAX_AUDIO
SizesAdmitted(ranges) ==
    strict => \A i \in 1..Len(ranges) : RangeLen(ranges[i]) <= MAX_FRAME_SIZE

\* The bytes of packet that are neither frame nor padding: the TOC byte, the
\* frame count byte of Code 3, every frame length field.
Overhead(p) ==
    CASE IsCode(p, 2) -> 1 + StatedLength(p, 1).size
      [] IsCode3(p) /\ FcbVbr(At(p, 1)) /\ FrameCount(p) >= 1 ->
           LET first == 2 + StatedPadding(p).n_padb
               explicit == StatedExplicit(p, first, FrameCount(p) - 1, <<>>)
           IN  2 + ((explicit.pos - first) - SumLen(explicit.frames))
      [] IsCode3(p) -> 2
      [] OTHER -> 1

(***************************************************************************)
(* C1.  When parse succeeds on an empty vector, the frames are pairwise    *)
(* disjoint ranges of the packet, and the frame lengths, the padding total *)
(* and the header bytes add up to the length of the packet.                *)
(***************************************************************************)
C1_RoundTrip ==
    (Succeeded /\ before = <<>>) =>
        /\ \A i, j \in 1..Len(frames) : i < j => Disjoint(frames[i], frames[j])
        /\ SumLen(frames) + PaddingTotal + Overhead(packet) = PLen(packet)

(***************************************************************************)
(* C2.  parse_frame_length gives (v, 1) for a first byte v up to 251,      *)
(* (v + 4w, 2) for v from 252 on followed by w, and None for an empty      *)
(* window or for v from 252 on with no second byte.                        *)
(***************************************************************************)
C2_FrameLength ==
    decoded # NoLength => decoded = StatedLength(bytes, 0)

(***************************************************************************)
(* C3.  A Code 2 packet whose length field of k bytes declares L, with     *)
(* R the bytes after the TOC byte: LengthOverflow if L > R - k, else two   *)
(* frames, the L bytes after the length field and the rest of the packet.  *)
(***************************************************************************)
C3_Code2Frames ==
    (Called /\ IsCode(packet, 2) /\ StatedLength(packet, 1).kind = "Some") =>
        LET k == StatedLength(packet, 1).size
            L == StatedLength(packet, 1).length
            R == PLen(packet) - 1
            stated == <<Range(1 + k, 1 + k + L), Range(1 + k + L, PLen(packet))>>
        IN  IF L > R - k
            THEN FailedWith("LengthOverflow")
            ELSE SizesAdmitted(stated) => (Succeeded /\ Appended = stated)

(***************************************************************************)
(* C4.  A CBR Code 3 packet with M >= 1 frames and R bytes after header    *)
(* and padding: M contiguous frames of R / M bytes if M divides R, else    *)
(* NonMultipleRemainder.                                                   *)
(***************************************************************************)
C4_CbrFrames ==
    (/\ Called /\ IsCode3(packet) /\ ~FcbVbr(At(packet, 1)) /\ FrameCount(packet) >= 1
     /\ HeaderAdmitted(packet)
     /\ StatedPadding(packet).complete
     /\ StatedPadding(packet).n_padb + StatedPadding(packet).pad_len <= PLen(packet) - 2) =>
        LET M == FrameCount(packet)
            pad == StatedPadding(packet)
            R == PLen(packet) - 2 - pad.n_padb - pad.pad_len
            stated == StatedEqual(2 + pad.n_padb, M, R \div M)
        IN  IF R % M # 0
            THEN FailedWith("NonMultipleRemainder")
            ELSE SizesAdmitted(stated) => (Succeeded /\ Appended = stated)

(***************************************************************************)
(* C5.  A VBR Code 3 packet with M >= 1 frames: frames 0..M-2 right after  *)
(* their length prefixes, the last frame from there over what is left of   *)
(* R; PacketTooSmall if nothing is left for it, else M frames.             *)
(***************************************************************************)
C5_VbrFrames ==
    (/\ Called /\ IsCode3(packet) /\ FcbVbr(At(packet, 1)) /\ FrameCount(packet) >= 1
     /\ HeaderAdmitted(packet)
     /\ StatedPadding(packet).complete
     /\ StatedPadding(packet).n_padb + StatedPadding(packet).pad_len <= PLen(packet) - 2
     /\ StatedExplicit(packet, 2 + StatedPadding(packet).n_padb,
                       FrameCount(packet) - 1, <<>>).decoded) =>
        LET pad == StatedPadding(packet)
            explicit == StatedExplicit(packet, 2 + pad.n_padb, FrameCount(packet) - 1, <<>>)
            \* R less the prefixes and frames before the last frame
            last == (PLen(packet) - pad.pad_len) - explicit.pos
            stated == Append(explicit.frames, Range(explicit.pos, explicit.pos + last))
        IN  IF last < 0
            THEN FailedWith("PacketTooSmall")
            ELSE SizesAdmitted(stated) => (Succeeded /\ Appended = stated)

(***************************************************************************)
(* C6.  A padded Code 3 packet: the padding length is read from byte 2 on, *)
(* 255 adding 254 and going on, a smaller byte adding itself and ending;   *)
(* that length plus the bytes read is the padding taken off to get R, and  *)
(* parse fails with LengthOverflow when it is above the packet length - 2. *)
(***************************************************************************)
C6_PaddingChain ==
    (/\ Called /\ IsCode3(packet) /\ FcbPad(At(packet, 1))
     /\ HeaderAdmitted(packet)
     /\ StatedPadding(packet).complete) =>
        LET total == StatedPadding(packet).n_padb + StatedPadding(packet).pad_len
        IN  /\ total > PLen(packet) - 2 => FailedWith("LengthOverflow")
            /\ Succeeded => PaddingTotal = total

(***************************************************************************)
(* C7.  A Code 1 packet: NonOddLength unless the packet length is even;    *)
(* else, without "strict", two frames that halve the bytes after the TOC   *)
(* byte.                                                                   *)
(***************************************************************************)
C7_Code1Halves ==
    (Called /\ IsCode(packet, 1)) =>
        IF PLen(packet) % 2 # 0
        THEN FailedWith("NonOddLength")
        ELSE ~strict =>
                /\ Succeeded
                /\ Len(Appended) = 2
                /\ Appended[1].lo = 1
                /\ Appended[1].hi = Appended[2].lo
                /\ Appended[2].hi = PLen(packet)
                /\ RangeLen(Appended[1]) = RangeLen(Appended[2])

(***************************************************************************)
(* C8.  Whether or not the caller cleared its vector, a successful call    *)
(* returns as num_frames the number of slices it appended itself: 1 for    *)
(* Code 0, 2 for Code 1 and Code 2, M for Code 3.                          *)
(***************************************************************************)
C8_NumFrames ==
    Succeeded =>
        /\ result.info[1].num_frames = Len(frames) - Len(before)
        /\ result.info[1].num_frames =
               CASE IsCode(packet, 0) -> 1
                 [] IsCode(packet, 1) -> 2
                 [] IsCode(packet, 2) -> 2
                 [] IsCode(packet, 3) -> FrameCount(packet)

(***************************************************************************)
(* C9.  On every buffer parse returns, with a result or one of the eight   *)
(* errors; it never panics.                                                *)
(***************************************************************************)
C9_NoPanic ==
    Called =>
        /\ pc = "returned"
        /\ result.kind \in {"ok", "err"}
        /\ result.kind = "err" => result.err \in Errors

(***************************************************************************)
(* C10.  On the same bytes, each parser on its own empty vector: when the  *)
(* parser without "strict" returns an error, so does the parser with it;   *)
(* the packets "strict" accepts are among those accepted without it.       *)
(***************************************************************************)
BothRan == lenient_run # NoRun /\ strict_run # NoRun

C10_StrictRefinesLenient ==
    BothRan =>
        /\ lenient_run.kind = "err" => strict_run.kind = "err"
        /\ strict_run.kind = "ok" => lenient_run.kind = "ok"

\* Both parsers ran on a Code 1 packet of odd length and both rejected it.
C10_Witness ==
    /\ BothRan
    /\ IsCode(packet, 1)
    /\ lenient_run.kind = "err" /\ lenient_run.err = "NonOddLength"
    /\ strict_run.kind = "err" /\ strict_run.err = "NonOddLength"

(***************************************************************************)
(* C11.  After a successful call the padding descriptor is there exactly   *)
(* for a Code 3 packet with the padding flag; its total is the declared    *)
(* padding length plus the padding length bytes read; its data is None for *)
(* a declared length of 0, and else the last pad_len bytes of the packet,  *)
(* which begin where the last frame ends.                                  *)
(***************************************************************************)
C11_PaddingDescriptor ==
    Succeeded =>
        /\ (result.padding # None) <=> (IsCode3(packet) /\ FcbPad(At(packet, 1)))
        /\ result.padding # None =>
              /\ StatedPadding(packet).complete
              /\ result.padding[1].total =
                     StatedPadding(packet).pad_len + StatedPadding(packet).n_padb
              /\ IF StatedPadding(packet).pad_len = 0
                 THEN result.padding[1].data = None
                 ELSE /\ result.padding[1].data =
                             Some(Range(PLen(packet) - StatedPadding(packet).pad_len,
                                        PLen(packet)))
                      /\ Appended # <<>>
                      /\ result.padding[1].data[1].lo = Appended[Len(Appended)].hi

====
